---- MODULE Spec2Model ----
(***************************************************************************)
(* Model of the condensed-audio pipeline of MorrisonWill/condenser.        *)
(*                                                                         *)
(*   src/src/App.tsx       parseSubtitles, extractAudio, handleSubmit      *)
(*   src/unnamed/part_000  the single-file variant of the same component   *)
(*                                                                         *)
(* Times are fixed-point: one unit is a tenth of a second, so the padding  *)
(* 0.5 s is 5 and the "+ 3" of the merge test is 30.                       *)
(***************************************************************************)
EXTENDS Integers, Sequences, FiniteSets, TLC

VARIABLES
    pc,             \* position inside the function being run
    cues,           \* the cue list the subtitle parser produced for the file
    periods,        \* parseSubtitles: let periods
    mergedPeriods,  \* parseSubtitles: const mergedPeriods
    i,              \* parseSubtitles: the merge loop's index (0-based)
    videoFile,      \* extractAudio: what the video file decodes to
    subtitles,      \* extractAudio: the windows handed to it
    audioBuffer,    \* extractAudio: const audioBuffer (the decoded source)
    offlineContext, \* extractAudio: const offlineContext (the destination)
    allocations,    \* how many OfflineAudioContext were constructed
    destinationOffset, \* extractAudio: let destinationOffset
    nodes,          \* the buffer sources started on offlineContext
    next,           \* extractAudio: how many windows the for-of loop has taken
    renderedBuffer, \* extractAudio: const renderedBuffer
    isProcessing,   \* useState: isProcessing
    progress,       \* useState: progress (percent)
    toast,          \* the last toast shown
    downloadUrl,    \* single-file variant, useState: downloadUrl
    fileSets,       \* useState: fileSets
    updatedFileSets, \* handleSubmit: const updatedFileSets
    fileIndex,      \* handleSubmit: the loop's let i
    showDownloadDialog, \* useState: showDownloadDialog
    bulkUploadOpen, \* useState: bulkUploadOpen
    bulkVideoFiles, \* useState: bulkVideoFiles
    bulkSubtitleFiles, \* useState: bulkSubtitleFiles
    now,            \* Date.now(), as a count of the user's actions so far
    aliased,        \* ids whose object in fileSets is shared with updatedFileSets
    wavInput,       \* audioBufferToWav: the AudioBuffer argument, buffer
    view,           \* audioBufferToWav: the bytes of out, seen through view
    wavPos,         \* audioBufferToWav: let pos
    wavOffset,      \* audioBufferToWav: let offset
    stmt            \* audioBufferToWav: the next header statement

parseVars == <<cues, periods, mergedPeriods, i>>
extractVars == <<videoFile, subtitles, audioBuffer, offlineContext, allocations,
                 destinationOffset, nodes, next, renderedBuffer>>
uiVars == <<isProcessing, progress, toast, downloadUrl>>
batchVars == <<fileSets, updatedFileSets, fileIndex, showDownloadDialog>>
bulkVars == <<bulkUploadOpen, bulkVideoFiles, bulkSubtitleFiles, now, aliased>>
wavVars == <<wavInput, view, wavPos, wavOffset, stmt>>
vars == <<pc, parseVars, extractVars, uiVars, batchVars, bulkVars, wavVars>>

----------------------------------------------------------------------------
(* Program constants and bounds *)

Padding == 5
MergeGap == 30

MaxCues == 3
MaxTick == 3
TimeStep == 6 * Padding

Times == {k * TimeStep : k \in 0..MaxTick}

\* A cue lasts 3 s or 9 s, or is malformed with end <= start: the code
\* validates nothing, so the external parser can hand such a cue over.
Durations == {0 - TimeStep, 0, TimeStep, 3 * TimeStep}

Period(s, e) == [start |-> s, end |-> e]

Cues == {c \in {Period(s, s + d) : s \in Times, d \in Durations} : c.end >= 0}

RECURSIVE SeqsUpTo(_, _)
SeqsUpTo(S, n) ==
    IF n = 0 THEN {<<>>}
    ELSE LET shorter == SeqsUpTo(S, n - 1)
         IN  shorter \cup {Append(q, x) : q \in {r \in shorter : Len(r) = n - 1}, x \in S}

ScenarioA == <<Period(10, 20), Period(23, 30), Period(100, 110)>>

CueLists == SeqsUpTo(Cues, MaxCues) \cup {ScenarioA}

----------------------------------------------------------------------------
(* parseSubtitles (src/src/App.tsx) *)

Max(a, b) == IF a >= b THEN a ELSE b

\* A variant of PadPeriod that forgets the clamp of the start at 0.
PadPeriodNoClamp(period) ==
    [start |-> period.start - Padding, end |-> period.end + Padding]

PadPeriod(period) ==
    [start |-> Max(0, period.start - Padding), end |-> period.end + Padding]

Normalize(ps) == [k \in 1..Len(ps) |-> PadPeriod(ps[k])]

\* Array.prototype.sort with the comparator a.start - b.start: stable, so
\* an element goes after every element whose start is not greater.
RECURSIVE InsertByStart(_, _)
InsertByStart(sorted, p) ==
    IF sorted = <<>> THEN <<p>>
    ELSE IF sorted[Len(sorted)].start - p.start <= 0
         THEN Append(sorted, p)
         ELSE Append(InsertByStart(SubSeq(sorted, 1, Len(sorted) - 1), p),
                     sorted[Len(sorted)])

RECURSIVE SortByStart(_)
SortByStart(ps) ==
    IF ps = <<>> THEN <<>>
    ELSE InsertByStart(SortByStart(SubSeq(ps, 1, Len(ps) - 1)), ps[Len(ps)])

\* periods[k] of the source (0-based); reading outside the array gives
\* undefined.
Undefined == [undefined |-> TRUE]
At(ps, k) == IF k >= 0 /\ k < Len(ps) THEN ps[k + 1] ELSE Undefined

\* A variant of LoopCond that runs the loop one index further.
LoopCondInclusive(k, n) == k <= n

LoopCond(k, n) == k < n

MergeCond(first, second) == (first.end + MergeGap) >= second.start

\* Reading .end of first, then .start of second, raises a TypeError when the
\* element is undefined.
BodyThrows(ps, k) == At(ps, k) = Undefined \/ At(ps, k + 1) = Undefined

None == [none |-> TRUE]

\* extractAudio has not been called.
ExtractIdle ==
    /\ videoFile = None
    /\ subtitles = <<>>
    /\ audioBuffer = None
    /\ offlineContext = None
    /\ allocations = 0
    /\ destinationOffset = 0
    /\ nodes = <<>>
    /\ next = 0
    /\ renderedBuffer = None

FileSet(id, video, subtitle) ==
    [id |-> id, videoFile |-> video, subtitleFile |-> subtitle, downloadUrl |-> None]

\* Line 26: the one empty file set the component starts with.
InitialFileSets == <<FileSet("1", None, None)>>

\* Line 32-35: the bulk dialog is closed and nothing is selected in it.
BulkIdle ==
    /\ bulkUploadOpen = FALSE
    /\ bulkVideoFiles = <<>>
    /\ bulkSubtitleFiles = <<>>
    /\ now = 0
    /\ aliased = {}

\* audioBufferToWav has not been called.
WavIdle ==
    /\ wavInput = None
    /\ view = <<>>
    /\ wavPos = 0
    /\ wavOffset = 0
    /\ stmt = 0

\* Lines 26-33: nothing processing, nothing shown, one empty file set.
ScreenIdle ==
    /\ isProcessing = FALSE
    /\ progress = 0
    /\ toast = "none"
    /\ downloadUrl = None
    /\ fileSets = InitialFileSets
    /\ updatedFileSets = <<>>
    /\ fileIndex = 0
    /\ showDownloadDialog = FALSE

\* The component as constructed.
UiIdle ==
    /\ ScreenIdle
    /\ BulkIdle
    /\ WavIdle

ParseInit ==
    /\ pc = "parse"
    /\ periods = <<>>
    /\ mergedPeriods = <<>>
    /\ i = 0
    /\ ExtractIdle
    /\ UiIdle
    /\ cues \in CueLists

\* Lines 98-112: the external parser's entries become periods, in order.
ParseEntries ==
    /\ pc = "parse"
    /\ periods' = cues
    /\ pc' = "normalize"
    /\ UNCHANGED <<wavVars, bulkVars, batchVars, cues, mergedPeriods, i, extractVars, uiVars>>

\* Lines 114-118.
NormalizePeriods ==
    /\ pc = "normalize"
    /\ periods' = Normalize(periods)
    /\ pc' = "sort"
    /\ UNCHANGED <<wavVars, bulkVars, batchVars, cues, mergedPeriods, i, extractVars, uiVars>>

\* Lines 120-124: sort, then let i = 0.
SortPeriods ==
    /\ pc = "sort"
    /\ periods' = SortByStart(periods)
    /\ mergedPeriods' = <<>>
    /\ i' = 0
    /\ pc' = "loop"
    /\ UNCHANGED <<wavVars, bulkVars, batchVars, cues, extractVars, uiVars>>

\* Lines 125-133, the test holds: push {first.start, second.end}.
MergePush ==
    /\ pc = "loop"
    /\ LoopCond(i, Len(periods))
    /\ ~BodyThrows(periods, i)
    /\ MergeCond(At(periods, i), At(periods, i + 1))
    /\ mergedPeriods' = Append(mergedPeriods,
            Period(At(periods, i).start, At(periods, i + 1).end))
    /\ i' = i + 1
    /\ UNCHANGED <<wavVars, bulkVars, batchVars, pc, cues, periods, extractVars, uiVars>>

\* Lines 125-133, the test fails: nothing is pushed.
MergeSkip ==
    /\ pc = "loop"
    /\ LoopCond(i, Len(periods))
    /\ ~BodyThrows(periods, i)
    /\ ~MergeCond(At(periods, i), At(periods, i + 1))
    /\ i' = i + 1
    /\ UNCHANGED <<wavVars, bulkVars, batchVars, pc, cues, periods, mergedPeriods, extractVars, uiVars>>

\* Lines 125-127 with periods[i + 1] undefined: second.start raises, the
\* promise parseSubtitles returned rejects.
MergeThrow ==
    /\ pc = "loop"
    /\ LoopCond(i, Len(periods))
    /\ BodyThrows(periods, i)
    /\ pc' = "thrown"
    /\ UNCHANGED <<wavVars, bulkVars, batchVars, cues, periods, mergedPeriods, i, extractVars, uiVars>>

\* Line 136.
ParseReturn ==
    /\ pc = "loop"
    /\ ~LoopCond(i, Len(periods))
    /\ pc' = "returned"
    /\ UNCHANGED <<wavVars, bulkVars, batchVars, cues, periods, mergedPeriods, i, extractVars, uiVars>>

ParseNext ==
    \/ ParseEntries
    \/ NormalizePeriods
    \/ SortPeriods
    \/ MergePush
    \/ MergeSkip
    \/ MergeThrow
    \/ ParseReturn

SpecParse == ParseInit /\ [][ParseNext]_vars

----------------------------------------------------------------------------
(* Properties of parseSubtitles *)

ParseDone == pc \in {"returned", "thrown"}

\* The cue list is one the data model allows: every cue has end > start.
WellFormedCues == \A k \in 1..Len(cues) : cues[k].end > cues[k].start

\* The time points (tenths of a second) the cue grid and scenario A span.
TimePoints == 0..(Max(TimeStep * (MaxTick + 3), 110) + Padding)

Covers(w, t) == w.start <= t /\ t <= w.end

CoveredByInput(t) == \E k \in 1..Len(periods) : Covers(periods[k], t)

WindowsCovering(t) == {k \in 1..Len(mergedPeriods) : Covers(mergedPeriods[k], t)}

\* C1: once parseSubtitles is done with a cue list it has returned, and every
\* time point covered by some padded input interval is covered by exactly
\* one window of the merged list.
C1_CoverageKept ==
    (ParseDone /\ WellFormedCues) =>
        /\ pc = "returned"
        /\ \A t \in TimePoints :
              CoveredByInput(t) => Cardinality(WindowsCovering(t)) = 1

\* C2: the merger adds no coverage: every time point of every window it
\* has produced lies inside some padded input interval (two intervals with a
\* positive gap between them are never joined).
C2_NoAddedCoverage ==
    (pc \in {"loop", "returned", "thrown"} /\ WellFormedCues) =>
        \A k \in 1..Len(mergedPeriods) : \A t \in TimePoints :
            Covers(mergedPeriods[k], t) => CoveredByInput(t)

\* C3: the windows the merge step has produced are sorted ascending and
\* strictly pairwise disjoint: windows[k].end < windows[k+1].start.
C3_SortedDisjoint ==
    (pc \in {"loop", "returned", "thrown"} /\ WellFormedCues) =>
        \A k \in 1..(Len(mergedPeriods) - 1) :
            mergedPeriods[k].end < mergedPeriods[k + 1].start

\* C4: for the cues of scenario A the normalized intervals are
\* (0.5,2.5), (1.8,3.5), (9.5,11.5) and parseSubtitles returns exactly the
\* windows (0.5,3.5), (9.5,11.5).
C4_ScenarioA ==
    cues = ScenarioA =>
        /\ pc \in {"sort", "loop", "returned", "thrown"} =>
              periods = <<Period(5, 25), Period(18, 35), Period(95, 115)>>
        /\ ParseDone =>
              /\ pc = "returned"
              /\ mergedPeriods = <<Period(5, 35), Period(95, 115)>>

\* C5: with an empty cue list parseSubtitles never raises, and what it
\* returns is the empty window list.
C5_EmptyReturnsEmpty ==
    cues = <<>> =>
        /\ pc # "thrown"
        /\ pc = "returned" => mergedPeriods = <<>>

C5_Witness == cues = <<>> /\ pc = "returned" /\ mergedPeriods = <<>>

----------------------------------------------------------------------------
(* extractAudio (src/src/App.tsx) *)

MaxWindows == 2
MaxWinTick == 2

\* parseSubtitles has not been called.
ParseIdle ==
    /\ cues = <<>>
    /\ periods = <<>>
    /\ mergedPeriods = <<>>
    /\ i = 0

\* Windows start on a half-second grid and last 0.5 s or 1 s, or have
\* end <= start.
WindowTimes == {k * Padding : k \in 0..MaxWinTick}
WindowDurations == {0 - Padding, 0, Padding, 2 * Padding}
Windows ==
    {w \in {Period(s, s + d) : s \in WindowTimes, d \in WindowDurations} : w.end >= 0}

\* Scenario C: the window (9.5, 11.5) against a 10-second source.
ScenarioCWindows == <<Period(95, 115)>>

\* Sample rates in frames per second, channel counts, and source lengths
\* in seconds.
SampleRates == {1, 3}
ChannelCounts == {1, 2}
SourceSeconds == {1, 2}

Decoded(nc, frames, rate) ==
    [numberOfChannels |-> nc, length |-> frames, sampleRate |-> rate]

Undecodable == [undecodable |-> TRUE]

VideoFiles ==
    {Decoded(nc, rate * secs, rate) :
        nc \in ChannelCounts, rate \in SampleRates, secs \in SourceSeconds}
    \cup {Undecodable}

ExtractInputs ==
    (SeqsUpTo(Windows, MaxWindows) \X VideoFiles)
    \cup {<<ScenarioCWindows, Decoded(nc, rate * 10, rate)>> :
            nc \in ChannelCounts, rate \in SampleRates}

\* subtitles.reduce((total, sub) => total + (sub.end - sub.start), 0)
RECURSIVE TotalDialogueDuration(_)
TotalDialogueDuration(subs) ==
    IF subs = <<>> THEN 0
    ELSE TotalDialogueDuration(SubSeq(subs, 1, Len(subs) - 1))
            + (subs[Len(subs)].end - subs[Len(subs)].start)

\* A variant of CeilFrames that rounds down.
FloorFrames(tenths, rate) == (tenths * rate) \div 10

\* Math.ceil(seconds * sampleRate), the duration being in tenths of a second.
CeilFrames(tenths, rate) == 0 - ((0 - (tenths * rate)) \div 10)

\* A variant of AdvanceOffset that leaves the write offset where it is.
AdvanceOffsetNever(offset, duration) == offset

\* destinationOffset += duration
AdvanceOffset(offset, duration) == offset + duration

\* AudioBufferSourceNode.start(when, offset, duration) raises a RangeError
\* for a negative argument.
StartThrows(when, offset, duration) == when < 0 \/ offset < 0 \/ duration < 0

ExtractInit ==
    /\ pc = "decode"
    /\ ParseIdle
    /\ audioBuffer = None
    /\ offlineContext = None
    /\ allocations = 0
    /\ destinationOffset = 0
    /\ nodes = <<>>
    /\ next = 0
    /\ renderedBuffer = None
    /\ UiIdle
    /\ \E in \in ExtractInputs : subtitles = in[1] /\ videoFile = in[2]

\* Lines 140-142.
DecodeAudio ==
    /\ pc = "decode"
    /\ videoFile # Undecodable
    /\ audioBuffer' = videoFile
    /\ pc' = "alloc"
    /\ UNCHANGED <<wavVars, bulkVars, batchVars, parseVars, uiVars, videoFile, subtitles, offlineContext, allocations,
                   destinationOffset, nodes, next, renderedBuffer>>

\* Line 142: decodeAudioData rejects.
DecodeThrow ==
    /\ pc = "decode"
    /\ videoFile = Undecodable
    /\ pc' = "thrown"
    /\ UNCHANGED <<wavVars, bulkVars, batchVars, parseVars, extractVars, uiVars>>

ContextLength ==
    CeilFrames(TotalDialogueDuration(subtitles), audioBuffer.sampleRate)

\* Lines 144-152: the destination is constructed, destinationOffset = 0.
AllocateContext ==
    /\ pc = "alloc"
    /\ ContextLength >= 0
    /\ offlineContext' = [numberOfChannels |-> audioBuffer.numberOfChannels,
                          length |-> ContextLength,
                          sampleRate |-> audioBuffer.sampleRate]
    /\ allocations' = allocations + 1
    /\ destinationOffset' = 0
    /\ next' = 0
    /\ pc' = "schedule"
    /\ UNCHANGED <<wavVars, bulkVars, batchVars, parseVars, uiVars, videoFile, subtitles, audioBuffer, nodes, renderedBuffer>>

\* Lines 146-150: the OfflineAudioContext constructor raises for a length
\* that is not positive (a zero length is refused by the Web Audio
\* specification; both outcomes are kept for it).
AllocateThrow ==
    /\ pc = "alloc"
    /\ ContextLength <= 0
    /\ pc' = "thrown"
    /\ UNCHANGED <<wavVars, bulkVars, batchVars, parseVars, extractVars, uiVars>>

\* Lines 154-163: one turn of the for-of loop.
ScheduleSource ==
    /\ pc = "schedule"
    /\ next < Len(subtitles)
    /\ LET start == subtitles[next + 1].start
           end == subtitles[next + 1].end
           duration == end - start
       IN  /\ ~StartThrows(destinationOffset, start, duration)
           /\ nodes' = Append(nodes, [when |-> destinationOffset,
                                      offset |-> start,
                                      duration |-> duration])
           /\ destinationOffset' = AdvanceOffset(destinationOffset, duration)
    /\ next' = next + 1
    /\ UNCHANGED <<wavVars, bulkVars, batchVars, pc, parseVars, uiVars, videoFile, subtitles, audioBuffer, offlineContext,
                   allocations, renderedBuffer>>

\* Line 160 raises.
ScheduleThrow ==
    /\ pc = "schedule"
    /\ next < Len(subtitles)
    /\ StartThrows(destinationOffset, subtitles[next + 1].start,
                   subtitles[next + 1].end - subtitles[next + 1].start)
    /\ pc' = "thrown"
    /\ UNCHANGED <<wavVars, bulkVars, batchVars, parseVars, extractVars, uiVars>>

\* Frame n of the destination is at n / sampleRate seconds. A node plays
\* from `when` for `duration`; positions are scaled by 10 * sampleRate so that
\* they are integers: frame n is at 10 * n, the time t (tenths) at t * rate.
NodePlaysAt(node, n, rate) ==
    /\ node.when * rate <= 10 * n
    /\ 10 * n < (node.when + node.duration) * rate

\* The (scaled) source position the node reads for destination frame n.
SourcePosition(node, n, rate) == (node.offset - node.when) * rate + 10 * n

\* A source position holds audio only inside the buffer; past its end the
\* node is silent.
InsideSource(pos, buffer) == pos >= 0 /\ pos < 10 * buffer.length

\* What the destination mixes into frame n of channel c: the source
\* positions of channel c that the playing nodes read. Empty is silence.
MixedAt(c, n) ==
    {<<c, SourcePosition(nodes[k], n, offlineContext.sampleRate)>> :
        k \in {m \in 1..Len(nodes) :
                /\ NodePlaysAt(nodes[m], n, offlineContext.sampleRate)
                /\ InsideSource(
                      SourcePosition(nodes[m], n, offlineContext.sampleRate),
                      audioBuffer)}}

\* Line 165: offlineContext.startRendering().
StartRendering ==
    /\ pc = "schedule"
    /\ next >= Len(subtitles)
    /\ renderedBuffer' =
          [numberOfChannels |-> offlineContext.numberOfChannels,
           sampleRate |-> offlineContext.sampleRate,
           length |-> offlineContext.length,
           data |-> [c \in 1..offlineContext.numberOfChannels |->
                        [n \in 0..(offlineContext.length - 1) |-> MixedAt(c, n)]]]
    /\ pc' = "rendered"
    /\ UNCHANGED <<wavVars, bulkVars, batchVars, parseVars, uiVars, videoFile, subtitles, audioBuffer, offlineContext,
                   allocations, destinationOffset, nodes, next>>

ExtractNext ==
    \/ DecodeAudio
    \/ DecodeThrow
    \/ AllocateContext
    \/ AllocateThrow
    \/ ScheduleSource
    \/ ScheduleThrow
    \/ StartRendering

SpecExtract == ExtractInit /\ [][ExtractNext]_vars

----------------------------------------------------------------------------
(* Properties of extractAudio *)

\* The sum of the durations of the windows from the k-th on.
RECURSIVE DurationFrom(_)
DurationFrom(k) ==
    IF k > Len(subtitles) THEN 0
    ELSE (subtitles[k].end - subtitles[k].start) + DurationFrom(k + 1)

\* The sum of the durations of the windows before the k-th.
DurationBefore(k) == DurationFrom(1) - DurationFrom(k)

\* C9: the destination is constructed at most once, and once it exists its
\* length is the least whole number of frames that is at least
\* sampleRate * (sum of end - start over all windows), its channel count and
\* sample rate are the decoded source's, and the rendered buffer has that size.
C9_DestinationSize ==
    /\ allocations <= 1
    /\ offlineContext # None =>
          /\ allocations = 1
          /\ offlineContext.numberOfChannels = videoFile.numberOfChannels
          /\ offlineContext.sampleRate = videoFile.sampleRate
          /\ offlineContext.length * 10 >= videoFile.sampleRate * DurationFrom(1)
          /\ (offlineContext.length - 1) * 10 < videoFile.sampleRate * DurationFrom(1)
    /\ renderedBuffer # None =>
          /\ renderedBuffer.length = offlineContext.length
          /\ renderedBuffer.numberOfChannels = videoFile.numberOfChannels
          /\ renderedBuffer.sampleRate = videoFile.sampleRate

\* Two windows whose total duration times the sample rate is not a whole
\* number of frames, rendered.
C9_Witness ==
    /\ pc = "rendered"
    /\ Len(subtitles) = 2
    /\ allocations = 1
    /\ offlineContext.length * 10 > videoFile.sampleRate * DurationFrom(1)
    /\ offlineContext.numberOfChannels = 2

WellFormedWindows ==
    \A k \in 1..Len(subtitles) :
        subtitles[k].start >= 0 /\ subtitles[k].end > subtitles[k].start

\* Destination frame n lies in the stretch written for the k-th window.
FrameOfWindow(n, k) ==
    /\ DurationBefore(k) * videoFile.sampleRate <= 10 * n
    /\ 10 * n < DurationBefore(k + 1) * videoFile.sampleRate

\* The source position (scaled by 10 * sampleRate) frame n of the k-th
\* window's stretch corresponds to.
WindowSourcePosition(n, k) ==
    (subtitles[k].start - DurationBefore(k)) * videoFile.sampleRate + 10 * n

\* C10: with a decodable source and well-formed windows extractAudio does not
\* raise, also when a window reaches past the end of the source, and every
\* destination frame that corresponds to a source position at or past the
\* source's length is silent; for the window (9.5, 11.5) on a 10-second
\* source the destination is the source's 9.5..10.0 followed by silence.
C10_SilencePastSource ==
    (videoFile # Undecodable /\ WellFormedWindows /\ subtitles # <<>>) =>
        /\ pc # "thrown"
        /\ pc = "rendered" =>
              /\ \A k \in 1..Len(subtitles) :
                 \A c \in 1..renderedBuffer.numberOfChannels :
                 \A n \in 0..(renderedBuffer.length - 1) :
                    (/\ FrameOfWindow(n, k)
                     /\ WindowSourcePosition(n, k) >= 10 * videoFile.length)
                        => renderedBuffer.data[c][n] = {}
              /\ subtitles = ScenarioCWindows =>
                    \A c \in 1..renderedBuffer.numberOfChannels :
                    \A n \in 0..(renderedBuffer.length - 1) :
                        renderedBuffer.data[c][n] =
                            (IF 10 * n < 5 * videoFile.sampleRate
                             THEN {<<c, 95 * videoFile.sampleRate + 10 * n>>}
                             ELSE {})

\* Two well-formed windows rendered, the first reaching past the end of the
\* source (silent frames) and the second inside it (audible frames).
C10_Witness ==
    /\ pc = "rendered"
    /\ WellFormedWindows
    /\ Len(subtitles) = 2
    /\ subtitles[1].end * videoFile.sampleRate > 10 * videoFile.length
    /\ \E n \in 0..(renderedBuffer.length - 1) :
          /\ FrameOfWindow(n, 1)
          /\ WindowSourcePosition(n, 1) >= 10 * videoFile.length
          /\ renderedBuffer.data[1][n] = {}
    /\ \E n \in 0..(renderedBuffer.length - 1) :
          /\ FrameOfWindow(n, 2)
          /\ renderedBuffer.data[1][n] # {}

----------------------------------------------------------------------------
(* The single-file variant (src/unnamed/part_000): handleSubmit,
   parseSubtitles and extractAudio. Its lines 40-53 and 68 are the lines
   140-152 and 165 of App.tsx, so DecodeAudio, DecodeThrow, AllocateContext,
   AllocateThrow and StartRendering stand for them here too. *)

Url(blob) == [url |-> blob]

\* audioBufferToWav, line 77: the byte length of the file it builds.
WavLength(buffer) == buffer.length * buffer.numberOfChannels * 2 + 44

\* The user has selected a video file and a subtitle file.
SingleInit ==
    /\ pc = "submit"
    /\ periods = <<>>
    /\ mergedPeriods = <<>>
    /\ i = 0
    /\ subtitles = <<>>
    /\ audioBuffer = None
    /\ offlineContext = None
    /\ allocations = 0
    /\ destinationOffset = 0
    /\ nodes = <<>>
    /\ next = 0
    /\ renderedBuffer = None
    /\ UiIdle
    /\ videoFile \in VideoFiles
    /\ cues \in SeqsUpTo(Cues, MaxWindows)

\* handleSubmit, lines 130-139, with parseSubtitles, lines 29-37: the
\* parser's entries are handed on as they are.
SingleSubmit ==
    /\ pc = "submit"
    /\ isProcessing' = TRUE
    /\ subtitles' = cues
    /\ progress' = 20
    /\ pc' = "decode"
    /\ UNCHANGED <<wavVars, bulkVars, batchVars, parseVars, videoFile, audioBuffer, offlineContext, allocations,
                   destinationOffset, nodes, next, renderedBuffer, toast, downloadUrl>>

\* extractAudio, lines 57-66: the padding is applied here.
SingleScheduleSource ==
    /\ pc = "schedule"
    /\ next < Len(subtitles)
    /\ LET start == subtitles[next + 1].start
           end == subtitles[next + 1].end
           duration == end - start + (2 * Padding)
       IN  /\ ~StartThrows(destinationOffset, start - Padding, duration)
           /\ nodes' = Append(nodes, [when |-> destinationOffset,
                                      offset |-> start - Padding,
                                      duration |-> duration])
           /\ destinationOffset' = destinationOffset + duration
    /\ next' = next + 1
    /\ UNCHANGED <<wavVars, bulkVars, batchVars, pc, parseVars, uiVars, videoFile, subtitles, audioBuffer,
                   offlineContext, allocations, renderedBuffer>>

\* Line 63 raises.
SingleScheduleThrow ==
    /\ pc = "schedule"
    /\ next < Len(subtitles)
    /\ StartThrows(destinationOffset, subtitles[next + 1].start - Padding,
                   subtitles[next + 1].end - subtitles[next + 1].start + (2 * Padding))
    /\ pc' = "thrown"
    /\ UNCHANGED <<wavVars, bulkVars, batchVars, parseVars, extractVars, uiVars>>

\* Lines 70-71 and 141-151.
SingleFinish ==
    /\ pc = "rendered"
    /\ downloadUrl' = Url([type |-> "audio/wav", size |-> WavLength(renderedBuffer)])
    /\ progress' = 100
    /\ toast' = "success"
    /\ pc' = "finally"
    /\ UNCHANGED <<wavVars, bulkVars, batchVars, parseVars, extractVars, isProcessing>>

\* Lines 152-158.
SingleCatch ==
    /\ pc = "thrown"
    /\ toast' = "error"
    /\ pc' = "finally"
    /\ UNCHANGED <<wavVars, bulkVars, batchVars, parseVars, extractVars, isProcessing, progress, downloadUrl>>

\* Lines 159-161.
SingleFinally ==
    /\ pc = "finally"
    /\ isProcessing' = FALSE
    /\ pc' = "settled"
    /\ UNCHANGED <<wavVars, bulkVars, batchVars, parseVars, extractVars, progress, toast, downloadUrl>>

SingleNext ==
    \/ SingleSubmit
    \/ DecodeAudio
    \/ DecodeThrow
    \/ AllocateContext
    \/ AllocateThrow
    \/ SingleScheduleSource
    \/ SingleScheduleThrow
    \/ StartRendering
    \/ SingleFinish
    \/ SingleCatch
    \/ SingleFinally

SpecSingle == SingleInit /\ [][SingleNext]_vars

\* Some cue of the subtitle file has end <= start.
MalformedCue == \E k \in 1..Len(cues) : cues[k].end <= cues[k].start

\* C8: no window handed to the extractor has end <= start, and a subtitle
\* file with a cue whose end <= start is rejected: its run ends with the
\* error toast and without a download.
C8_MalformedRejected ==
    /\ \A k \in 1..Len(subtitles) : subtitles[k].end > subtitles[k].start
    /\ (MalformedCue /\ pc = "settled") => (toast = "error" /\ downloadUrl = None)

----------------------------------------------------------------------------
(* handleSubmit (src/src/App.tsx) *)

MaxSets == 2

\* What parseSubtitles does with a cue list, as one value: the merge loop
\* run to its end.
RECURSIVE MergeLoop(_, _, _)
MergeLoop(ps, k, merged) ==
    IF ~LoopCond(k, Len(ps)) THEN [thrown |-> FALSE, value |-> merged]
    ELSE IF BodyThrows(ps, k) THEN [thrown |-> TRUE, value |-> <<>>]
    ELSE MergeLoop(ps, k + 1,
            IF MergeCond(At(ps, k), At(ps, k + 1))
            THEN Append(merged, Period(At(ps, k).start, At(ps, k + 1).end))
            ELSE merged)

ParseSubtitles(cs) == MergeLoop(SortByStart(Normalize(cs)), 0, <<>>)

\* The write offset extractAudio has reached before the k-th window.
RECURSIVE OffsetBefore(_, _)
OffsetBefore(subs, k) ==
    IF k <= 1 THEN 0
    ELSE AdvanceOffset(OffsetBefore(subs, k - 1),
                       subs[k - 1].end - subs[k - 1].start)

\* extractAudio can reject: the file does not decode, the context is not
\* constructed, or a start() raises.
ExtractCanThrow(video, subs) ==
    \/ video = Undecodable
    \/ /\ video # Undecodable
       /\ \/ CeilFrames(TotalDialogueDuration(subs), video.sampleRate) <= 0
          \/ \E k \in 1..Len(subs) :
                StartThrows(OffsetBefore(subs, k), subs[k].start,
                            subs[k].end - subs[k].start)

\* extractAudio can resolve with a blob.
ExtractCanReturn(video, subs) ==
    /\ video # Undecodable
    /\ CeilFrames(TotalDialogueDuration(subs), video.sampleRate) >= 0
    /\ \A k \in 1..Len(subs) :
          ~StartThrows(OffsetBefore(subs, k), subs[k].start,
                       subs[k].end - subs[k].start)

\* The files a set can hold: none, a mono file of one frame, or a file
\* that does not decode; no subtitle file, one without cues, or one cue.
BatchVideos == {None, Decoded(1, 1, 1), Undecodable}
SubtitleFile(entries) == [entries |-> entries]
BatchSubtitles == {None, SubtitleFile(<<>>), SubtitleFile(<<Period(0, TimeStep)>>)}

Digit(k) == <<"1", "2", "3", "4", "5", "6", "7", "8", "9">>[k]

\* The file-set lists the user can have built before submitting.
BatchFileSets ==
    UNION {
        {[k \in 1..n |-> FileSet(Digit(k), v[k], t[k])] :
            v \in [1..n -> BatchVideos], t \in [1..n -> BatchSubtitles]} :
        n \in 1..MaxSets}

\* set => !set.videoFile || !set.subtitleFile
Incomplete(set) == set.videoFile = None \/ set.subtitleFile = None

\* (x / n) * 100 as a whole percentage, x given in halves.
Percent(halves, n) == (halves * 100) \div (2 * n)

BatchInit ==
    /\ pc = "idle"
    /\ ParseIdle
    /\ ExtractIdle
    /\ isProcessing = FALSE
    /\ progress = 0
    /\ toast = "none"
    /\ downloadUrl = None
    /\ BulkIdle
    /\ WavIdle
    /\ updatedFileSets = <<>>
    /\ fileIndex = 0
    /\ showDownloadDialog = FALSE
    /\ fileSets \in BatchFileSets

\* The ids of the sets of a list.
Ids(sets) == {sets[k].id : k \in 1..Len(sets)}

\* Among the sets of the list that carry the id of the k-th, which one the
\* k-th is.
Occurrence(sets, k) ==
    Cardinality({j \in 1..k : sets[j].id = sets[k].id})

\* [...fileSets] copies the array, not the objects: sets[k] and copy[j] are
\* one object when neither was replaced since the copy was taken.
SameObject(sets, k, copy, j) ==
    /\ sets[k].id = copy[j].id
    /\ sets[k].id \in aliased
    /\ Occurrence(sets, k) = Occurrence(copy, j)

\* Lines 172-173: some set lacks a file, handleSubmit returns.
SubmitIgnored ==
    /\ pc = "idle"
    /\ \E k \in 1..Len(fileSets) : Incomplete(fileSets[k])
    /\ UNCHANGED vars

\* Lines 172-181: the run starts on a shallow copy of fileSets.
Submit ==
    /\ pc = "idle"
    /\ \A k \in 1..Len(fileSets) : ~Incomplete(fileSets[k])
    /\ isProcessing' = TRUE
    /\ progress' = 0
    /\ updatedFileSets' = fileSets
    /\ aliased' = Ids(fileSets)
    /\ fileIndex' = 0
    /\ pc' = "iterate"
    /\ UNCHANGED <<wavVars, parseVars, extractVars, toast, downloadUrl, fileSets,
                   showDownloadDialog, bulkUploadOpen, bulkVideoFiles,
                   bulkSubtitleFiles, now>>

\* Lines 181-186: the next set's subtitles are parsed; a rejection leaves
\* the loop for the catch block.
BatchParse ==
    /\ pc = "iterate"
    /\ fileIndex < Len(updatedFileSets)
    /\ LET set == updatedFileSets[fileIndex + 1]
           parsed == ParseSubtitles(set.subtitleFile.entries)
       IN  IF Incomplete(set)
           THEN /\ fileIndex' = fileIndex + 1
                /\ UNCHANGED <<pc, subtitles, progress>>
           ELSE IF parsed.thrown
           THEN /\ pc' = "catch"
                /\ UNCHANGED <<fileIndex, subtitles, progress>>
           ELSE /\ subtitles' = parsed.value
                /\ progress' = Percent(2 * fileIndex + 1, Len(updatedFileSets))
                /\ pc' = "extract"
                /\ UNCHANGED fileIndex
    /\ UNCHANGED <<wavVars, bulkVars, parseVars, videoFile, audioBuffer, offlineContext, allocations,
                   destinationOffset, nodes, next, renderedBuffer, isProcessing,
                   toast, downloadUrl, fileSets, updatedFileSets, showDownloadDialog>>

\* Lines 188-190: extractAudio resolves. updatedFileSets[i] is the object
\* that fileSets holds too, unless the user has replaced or removed it
\* since the copy was taken, so the assignment shows in both.
BatchExtract ==
    /\ pc = "extract"
    /\ ExtractCanReturn(updatedFileSets[fileIndex + 1].videoFile, subtitles)
    /\ LET url == Url([type |-> "audio/wav"])
       IN  /\ updatedFileSets' =
                [updatedFileSets EXCEPT ![fileIndex + 1].downloadUrl = url]
           /\ fileSets' =
                [k \in 1..Len(fileSets) |->
                    IF SameObject(fileSets, k, updatedFileSets, fileIndex + 1)
                    THEN [fileSets[k] EXCEPT !.downloadUrl = url]
                    ELSE fileSets[k]]
    /\ progress' = Percent(2 * (fileIndex + 1), Len(updatedFileSets))
    /\ fileIndex' = fileIndex + 1
    /\ pc' = "iterate"
    /\ UNCHANGED <<wavVars, bulkVars, parseVars, extractVars, isProcessing, toast, downloadUrl,
                   showDownloadDialog>>

\* Line 188: extractAudio rejects, the loop is left for the catch block.
BatchExtractThrow ==
    /\ pc = "extract"
    /\ ExtractCanThrow(updatedFileSets[fileIndex + 1].videoFile, subtitles)
    /\ pc' = "catch"
    /\ UNCHANGED <<wavVars, bulkVars, parseVars, extractVars, uiVars, batchVars>>

\* Lines 193-202: the loop ran to its end.
BatchFinish ==
    /\ pc = "iterate"
    /\ fileIndex >= Len(updatedFileSets)
    /\ fileSets' = updatedFileSets
    /\ showDownloadDialog' =
          (IF Len(updatedFileSets) > 1 THEN TRUE ELSE showDownloadDialog)
    /\ toast' = "success"
    /\ aliased' = Ids(updatedFileSets)
    /\ pc' = "finally"
    /\ UNCHANGED <<wavVars, parseVars, extractVars, isProcessing, progress, downloadUrl,
                   updatedFileSets, fileIndex, bulkUploadOpen, bulkVideoFiles,
                   bulkSubtitleFiles, now>>

\* Lines 203-209.
BatchCatch ==
    /\ pc = "catch"
    /\ toast' = "error"
    /\ pc' = "finally"
    /\ UNCHANGED <<wavVars, bulkVars, parseVars, extractVars, isProcessing, progress, downloadUrl,
                   batchVars>>

\* Lines 210-212.
BatchFinally ==
    /\ pc = "finally"
    /\ isProcessing' = FALSE
    /\ aliased' = {}
    /\ pc' = "idle"
    /\ UNCHANGED <<wavVars, parseVars, extractVars, progress, toast, downloadUrl, batchVars,
                   bulkUploadOpen, bulkVideoFiles, bulkSubtitleFiles, now>>

BatchNext ==
    \/ SubmitIgnored
    \/ Submit
    \/ BatchParse
    \/ BatchExtract
    \/ BatchExtractThrow
    \/ BatchFinish
    \/ BatchCatch
    \/ BatchFinally

SpecBatch == BatchInit /\ [][BatchNext]_vars

\* A run of handleSubmit has come to its end.
BatchSettled == pc = "idle" /\ toast # "none"

\* How many file sets the loop of the last run took up.
SetsTakenUp == IF toast = "error" THEN fileIndex + 1 ELSE fileIndex

\* C7: when a run of handleSubmit over a batch has ended, the loop has taken
\* up every file set of the batch (a file that failed did not keep the later
\* ones from being processed), and every set whose processing went through
\* holds its download URL.
C7_FailureIsolated ==
    BatchSettled =>
        /\ SetsTakenUp = Len(updatedFileSets)
        /\ \A k \in 1..Len(fileSets) :
              k <= fileIndex => fileSets[k].downloadUrl # None

----------------------------------------------------------------------------
(* Further properties of parseSubtitles *)

\* The merge step alone (lines 120-136: sort, loop, return) applied to an
\* interval list.
MergeStep(intervals) == MergeLoop(SortByStart(intervals), 0, <<>>)

\* C11: merge is idempotent: once parseSubtitles is done with a well-formed
\* cue list, applying the merge step to the windows it produced returns, and
\* returns those same windows.
C11_MergeIdempotent ==
    (ParseDone /\ WellFormedCues) =>
        /\ ~MergeStep(mergedPeriods).thrown
        /\ MergeStep(mergedPeriods).value = mergedPeriods

\* C15: for a non-empty cue list the merge loop reads periods only at
\* indices inside the list, and parseSubtitles returns instead of raising.
C15_LoopInBounds ==
    cues # <<>> =>
        /\ pc # "thrown"
        /\ (pc = "loop" /\ LoopCond(i, Len(periods))) =>
              (i >= 0 /\ i + 1 < Len(periods))

----------------------------------------------------------------------------
(* Further properties of the single-file variant *)

\* C17: in the single-file extractAudio, for well-formed cues (which are the
\* subtitle list there), the final write offset, the sum of
\* the scheduled durations end - start + 2 * padding, times the sample rate
\* does not exceed the allocated destination length.
C17_DestinationLongEnough ==
    (pc = "rendered" /\ WellFormedCues) =>
        destinationOffset * offlineContext.sampleRate
            <= offlineContext.length * 10

\* C14: for an empty cue list and a file that decodes, the run completes
\* with the success toast and a blob of exactly the 44 header bytes.
C14_EmptyCueListCompletes ==
    (cues = <<>> /\ videoFile # Undecodable /\ pc = "settled") =>
        /\ toast = "success"
        /\ downloadUrl # None
        /\ downloadUrl.url.size = 44

----------------------------------------------------------------------------
(* audioBufferToWav (src/unnamed/part_000) *)

MaxFrames == 2

\* A sample value num / den; den = 0 stands for NaN.
Sample(num, den) == [num |-> num, den |-> den]

NaN == Sample(0, 0)

\* The values a channel holds: -1.5, -0.25, 0.25 and 1.5.
Samples == {Sample(n, 4) : n \in {0 - 6, 0 - 1, 1, 6}}

WavSampleRates == {8000, 44100}

\* The AudioBuffers of nc channels and so many frames that can be handed to
\* audioBufferToWav; data[c][n] is frame n of channel c - 1.
WavBuffers(nc, rate, frames) ==
    [numberOfChannels : {nc}, sampleRate : {rate}, length : {frames},
     data : [1..nc -> [0..(frames - 1) -> Samples]]]

\* DataView.setUint16, setUint32 and setInt16 with littleEndian = true:
\* the low size bytes of data in two's complement, least significant first.
RECURSIVE SetBytes(_, _, _, _)
SetBytes(bytes, p, size, data) ==
    IF size = 0 THEN bytes
    ELSE SetBytes([bytes EXCEPT ![p] = data % 256], p + 1, size - 1,
                  data \div 256)

\* A variant of DataChunkLength that does not skip the length field.
DataChunkLengthNoSkip(length, p) == length - p

\* Line 100: length - pos - 4
DataChunkLength(length, p) == length - p - 4

\* Lines 86-100: thirteen header statements.
HeaderStatements == 13

\* The k-th header statement: how many bytes it writes and of what value,
\* with pos = p when it runs.
HeaderStatement(k, buf, length, p) ==
    CASE k = 1 -> [size |-> 4, data |-> 1179011410]    \* 0x46464952 "RIFF"
      [] k = 2 -> [size |-> 4, data |-> length - 8]
      [] k = 3 -> [size |-> 4, data |-> 1163280727]    \* 0x45564157 "WAVE"
      [] k = 4 -> [size |-> 4, data |-> 544501094]     \* 0x20746d66 "fmt "
      [] k = 5 -> [size |-> 4, data |-> 16]
      [] k = 6 -> [size |-> 2, data |-> 1]
      [] k = 7 -> [size |-> 2, data |-> buf.numberOfChannels]
      [] k = 8 -> [size |-> 4, data |-> buf.sampleRate]
      [] k = 9 -> [size |-> 4, data |-> buf.sampleRate * 2 * buf.numberOfChannels]
      [] k = 10 -> [size |-> 2, data |-> buf.numberOfChannels * 2]
      [] k = 11 -> [size |-> 2, data |-> 16]
      [] k = 12 -> [size |-> 4, data |-> 1635017060]   \* 0x61746164 "data"
      [] k = 13 -> [size |-> 4, data |-> DataChunkLength(length, p)]

Min(a, b) == IF a <= b THEN a ELSE b

\* channels[c][n]; a read past the end of the channel is undefined, which
\* Math.min turns into NaN.
ChannelSample(buf, c, n) ==
    IF n >= 0 /\ n < buf.length THEN buf.data[c + 1][n] ELSE NaN

\* Line 108: Math.max(-1, Math.min(1, x)).
Clamp(s) ==
    IF s.den = 0 THEN s
    ELSE Sample(Max(0 - s.den, Min(s.den, s.num)), s.den)

\* x | 0 for the quotient n / d: the fraction is dropped, towards zero.
Truncate(n, d) == IF n >= 0 THEN n \div d ELSE 0 - ((0 - n) \div d)

\* Line 109: the test 0.5 + sample < 0.
ScaleTest(s) == s.den + 2 * s.num < 0

\* Line 109: (0.5 + sample < 0 ? sample * 32768 : sample * 32767) | 0.
Scale(s) ==
    IF s.den = 0 THEN 0
    ELSE IF ScaleTest(s) THEN Truncate(s.num * 32768, s.den)
    ELSE Truncate(s.num * 32767, s.den)

\* Lines 75-83: the call, with out allocated and zero-filled.
WavInit ==
    /\ pc = "header"
    /\ wavPos = 0
    /\ wavOffset = 0
    /\ stmt = 1
    /\ ParseIdle
    /\ ExtractIdle
    /\ ScreenIdle
    /\ BulkIdle
    /\ \E nc \in ChannelCounts, rate \in WavSampleRates, frames \in 0..MaxFrames :
          wavInput \in WavBuffers(nc, rate, frames)
    /\ view = [k \in 0..(WavLength(wavInput) - 1) |-> 0]

\* Lines 86-100 and 119-127: one header statement; after the last one the
\* channels are collected (lines 103-104) and the while loop is reached.
WriteHeader ==
    /\ pc = "header"
    /\ LET st == HeaderStatement(stmt, wavInput, WavLength(wavInput), wavPos) IN
          /\ view' = SetBytes(view, wavPos, st.size, st.data)
          /\ wavPos' = wavPos + st.size
    /\ stmt' = stmt + 1
    /\ pc' = IF stmt = HeaderStatements THEN "while" ELSE "header"
    /\ UNCHANGED <<bulkVars, batchVars, parseVars, extractVars, uiVars,
                   wavInput, wavOffset>>

\* Lines 106-107: pos < length, the for loop starts.
WhileEnter ==
    /\ pc = "while"
    /\ wavPos < WavLength(wavInput)
    /\ i' = 0
    /\ pc' = "for"
    /\ UNCHANGED <<wavVars, bulkVars, batchVars, extractVars, uiVars,
                   cues, periods, mergedPeriods>>

\* Lines 106 and 117: pos has reached length, out is returned.
WhileExit ==
    /\ pc = "while"
    /\ ~(wavPos < WavLength(wavInput))
    /\ pc' = "encoded"
    /\ UNCHANGED <<wavVars, bulkVars, batchVars, parseVars, extractVars, uiVars>>

\* Lines 107-112: one channel's sample of the frame.
WriteSample ==
    /\ pc = "for"
    /\ i < wavInput.numberOfChannels
    /\ view' = SetBytes(view, wavPos, 2,
                        Scale(Clamp(ChannelSample(wavInput, i, wavOffset))))
    /\ wavPos' = wavPos + 2
    /\ i' = i + 1
    /\ UNCHANGED <<bulkVars, batchVars, extractVars, uiVars, pc,
                   cues, periods, mergedPeriods, wavInput, wavOffset, stmt>>

\* Lines 107 and 113: the for loop ends, offset++.
NextFrame ==
    /\ pc = "for"
    /\ ~(i < wavInput.numberOfChannels)
    /\ wavOffset' = wavOffset + 1
    /\ pc' = "while"
    /\ UNCHANGED <<bulkVars, batchVars, parseVars, extractVars, uiVars,
                   wavInput, view, wavPos, stmt>>

WavNext ==
    \/ WriteHeader
    \/ WhileEnter
    \/ WhileExit
    \/ WriteSample
    \/ NextFrame

SpecWav == WavInit /\ [][WavNext]_vars

\* The unsigned value of the size bytes at p, least significant first.
RECURSIVE UintAt(_, _, _)
UintAt(bytes, p, size) ==
    IF size = 0 THEN 0
    ELSE bytes[p] + 256 * UintAt(bytes, p + 1, size - 1)

\* The signed 16-bit value at p.
Int16At(bytes, p) ==
    IF UintAt(bytes, p, 2) >= 32768 THEN UintAt(bytes, p, 2) - 65536
    ELSE UintAt(bytes, p, 2)

TotalBytes == 44 + wavInput.length * wavInput.numberOfChannels * 2

HeaderWritten == pc \in {"while", "for", "encoded"}

\* C12: audioBufferToWav writes exactly 44 header bytes before the data,
\* with chunkSize = totalBytes - 8, subchunk1Size = 16, audioFormat = 1,
\* byteRate = sampleRate * numChannels * 2, blockAlign = numChannels * 2,
\* bitsPerSample = 16 and dataSize = totalBytes - 44, and the sample loop
\* stops exactly at totalBytes.
C12_HeaderLayout ==
    /\ DOMAIN view = 0..(TotalBytes - 1)
    /\ wavPos <= TotalBytes
    /\ (pc = "while" /\ wavOffset = 0) => wavPos = 44
    /\ (pc = "for" /\ i < wavInput.numberOfChannels) =>
          (wavPos >= 44 /\ wavPos + 2 <= TotalBytes)
    /\ pc = "encoded" => wavPos = TotalBytes
    /\ HeaderWritten =>
          /\ UintAt(view, 0, 4) = 1179011410
          /\ UintAt(view, 4, 4) = TotalBytes - 8
          /\ UintAt(view, 8, 4) = 1163280727
          /\ UintAt(view, 12, 4) = 544501094
          /\ UintAt(view, 16, 4) = 16
          /\ UintAt(view, 20, 2) = 1
          /\ UintAt(view, 22, 2) = wavInput.numberOfChannels
          /\ UintAt(view, 24, 4) = wavInput.sampleRate
          /\ UintAt(view, 28, 4) =
                wavInput.sampleRate * wavInput.numberOfChannels * 2
          /\ UintAt(view, 32, 2) = wavInput.numberOfChannels * 2
          /\ UintAt(view, 34, 2) = 16
          /\ UintAt(view, 36, 4) = 1635017060
          /\ UintAt(view, 40, 4) = TotalBytes - 44

\* A stereo buffer of at least two frames at 44100 Hz has been encoded.
C12_Witness ==
    /\ pc = "encoded"
    /\ wavInput.numberOfChannels = 2
    /\ wavInput.length >= 2
    /\ wavInput.sampleRate = 44100
    /\ wavPos = TotalBytes

\* The encoding the sentence describes: clamp to [-1, 1], then negative
\* values times 32768 and the others times 32767, truncated.
StatedEncoding(s) ==
    IF Clamp(s).num < 0 THEN Truncate(Clamp(s).num * 32768, s.den)
    ELSE Truncate(Clamp(s).num * 32767, s.den)

\* Where the sample of channel c of frame n lies in the file.
SamplePosition(c, n) == 44 + (n * wavInput.numberOfChannels + c) * 2

\* C13: every sample is encoded by clamping it to [-1, 1] and multiplying
\* a negative value by 32768 and a non-negative one by 32767, truncated;
\* 1.5 encodes to 32767, -1.5 to -32768, and every encoded value lies in
\* -32768..32767.
C13_SampleEncoding ==
    pc = "encoded" =>
        \A c \in 0..(wavInput.numberOfChannels - 1) :
            \A n \in 0..(wavInput.length - 1) :
                LET s == wavInput.data[c + 1][n]
                    written == Int16At(view, SamplePosition(c, n))
                IN  /\ written = StatedEncoding(s)
                    /\ written >= 0 - 32768 /\ written <= 32767
                    /\ s = Sample(6, 4) => written = 32767
                    /\ s = Sample(0 - 6, 4) => written = 0 - 32768

----------------------------------------------------------------------------
(* The component's handlers together (src/src/App.tsx) *)

MaxNow == 4

MaxEpisodes == 3

\* A file the user can pick: what it holds, and its name.
NamedVideo(name) ==
    [numberOfChannels |-> 1, length |-> 1, sampleRate |-> 1, name |-> name]

NamedSubtitle(name, entries) == [entries |-> entries, name |-> name]

\* The user's video files, and the subtitle files: one without cues and
\* one with a cue.
UserVideos == <<NamedVideo("ep10.mkv"), NamedVideo("ep2.mkv")>>

UserSubtitles ==
    <<NamedSubtitle("ep10.srt", <<Period(0, TimeStep)>>),
      NamedSubtitle("ep2.srt", <<>>)>>

UserFiles(type) == IF type = "video" THEN UserVideos ELSE UserSubtitles

\* Lines 59-60: parseInt(name.match(/\d+/)?.[0] || '0').
FirstNumber(name) ==
    CASE name \in {"ep10.mkv", "ep10.srt"} -> 10
      [] name \in {"ep2.mkv", "ep2.srt"} -> 2
      [] OTHER -> 0

\* Lines 58-62: files.sort by the first number of the name (stable).
RECURSIVE InsertByNumber(_, _)
InsertByNumber(sorted, file) ==
    IF sorted = <<>> THEN <<file>>
    ELSE IF FirstNumber(sorted[Len(sorted)].name) <= FirstNumber(file.name)
    THEN Append(sorted, file)
    ELSE Append(InsertByNumber(SubSeq(sorted, 1, Len(sorted) - 1), file),
                sorted[Len(sorted)])

RECURSIVE SortByNumber(_)
SortByNumber(files) ==
    IF files = <<>> THEN <<>>
    ELSE InsertByNumber(SortByNumber(SubSeq(files, 1, Len(files) - 1)),
                        files[Len(files)])

\* What a file chooser with "multiple" hands over: some of the user's files
\* of the type, each once, in any order.
Selections(type) ==
    {sel \in SeqsUpTo(1..Len(UserFiles(type)), Len(UserFiles(type))) :
        \A a, b \in 1..Len(sel) : sel[a] = sel[b] => a = b}

\* Date.now().toString() at time t.
TimeString(t) == "170000000000" \o Digit(t)

\* index, as the string appended to it on line 82.
IndexString(index) == <<"0", "1", "2", "3">>[index + 1]

\* Line 264: the remove button is rendered when fileSets.length > 1.
RemoveOffered(sets) == Len(sets) > 1

UiInit ==
    /\ pc = "idle"
    /\ ParseIdle
    /\ ExtractIdle
    /\ UiIdle

\* Lines 40-45: a file (or none) is chosen for one slot of the set id; every
\* set with that id is replaced by a copy that holds it.
HandleFileChange ==
    /\ now < MaxNow
    /\ \E k \in 1..Len(fileSets), type \in {"video", "subtitle"} :
          \E selectedFile \in {None} \cup
                    {UserFiles(type)[f] : f \in 1..Len(UserFiles(type))} :
             /\ fileSets' =
                   [j \in 1..Len(fileSets) |->
                       IF fileSets[j].id # fileSets[k].id THEN fileSets[j]
                       ELSE IF type = "video"
                       THEN [fileSets[j] EXCEPT !.videoFile = selectedFile]
                       ELSE [fileSets[j] EXCEPT !.subtitleFile = selectedFile]]
             /\ aliased' = aliased \ {fileSets[k].id}
    /\ now' = now + 1
    /\ UNCHANGED <<pc, wavVars, parseVars, extractVars, uiVars, updatedFileSets,
                   fileIndex, showDownloadDialog, bulkUploadOpen,
                   bulkVideoFiles, bulkSubtitleFiles>>

\* Lines 48-50: a new empty set whose id is the time of the click, which
\* can be the time the click before it was handled at.
AddFileSet ==
    /\ Len(fileSets) < MaxEpisodes
    /\ \E t \in {now, now + 1} :
          /\ t >= 1
          /\ t <= MaxNow
          /\ now' = t
          /\ fileSets' = Append(fileSets, FileSet(TimeString(t), None, None))
    /\ UNCHANGED <<pc, wavVars, parseVars, extractVars, uiVars, updatedFileSets,
                   fileIndex, showDownloadDialog, bulkUploadOpen,
                   bulkVideoFiles, bulkSubtitleFiles, aliased>>

\* Lines 52-54 and 264-270: every set with the id is filtered out.
RemoveFileSet ==
    /\ now < MaxNow
    /\ RemoveOffered(fileSets)
    /\ \E k \in 1..Len(fileSets) :
          /\ fileSets' =
                SelectSeq(fileSets, LAMBDA set : set.id # fileSets[k].id)
          /\ aliased' = aliased \ {fileSets[k].id}
    /\ now' = now + 1
    /\ UNCHANGED <<pc, wavVars, parseVars, extractVars, uiVars, updatedFileSets,
                   fileIndex, showDownloadDialog, bulkUploadOpen,
                   bulkVideoFiles, bulkSubtitleFiles>>

\* Line 351: the bulk dialog is opened or closed.
SetBulkUploadOpen ==
    /\ now < MaxNow
    /\ bulkUploadOpen' = ~bulkUploadOpen
    /\ now' = now + 1
    /\ UNCHANGED <<pc, wavVars, parseVars, extractVars, uiVars, batchVars,
                   bulkVideoFiles, bulkSubtitleFiles, aliased>>

\* Lines 56-69 and 365-380: files are chosen in one of the dialog's inputs.
HandleBulkUpload ==
    /\ now < MaxNow
    /\ bulkUploadOpen
    /\ \E type \in {"video", "subtitle"} :
          \E sel \in Selections(type) :
             LET files == [k \in 1..Len(sel) |-> UserFiles(type)[sel[k]]]
                 sortedFiles == SortByNumber(files)
             IN  IF type = "video"
                 THEN /\ bulkVideoFiles' = sortedFiles
                      /\ UNCHANGED bulkSubtitleFiles
                 ELSE /\ bulkSubtitleFiles' = sortedFiles
                      /\ UNCHANGED bulkVideoFiles
    /\ now' = now + 1
    /\ UNCHANGED <<pc, wavVars, parseVars, extractVars, uiVars, batchVars,
                   bulkUploadOpen, aliased>>

\* Line 72: the test applyBulkUpload returns on.
BulkIncomplete ==
    \/ Len(bulkVideoFiles) = 0
    \/ Len(bulkSubtitleFiles) = 0
    \/ Len(bulkSubtitleFiles) # Len(bulkVideoFiles)

\* Lines 71-79: the selection is incomplete, a toast is shown.
ApplyBulkRefused ==
    /\ now < MaxNow
    /\ bulkUploadOpen
    /\ BulkIncomplete
    /\ toast' = "incomplete"
    /\ now' = now + 1
    /\ UNCHANGED <<pc, wavVars, parseVars, extractVars, batchVars, isProcessing,
                   progress, downloadUrl, bulkUploadOpen, bulkVideoFiles,
                   bulkSubtitleFiles, aliased>>

\* Lines 81-90: fileSets is replaced by one new set per video file.
ApplyBulkUpload ==
    /\ now < MaxNow
    /\ bulkUploadOpen
    /\ ~BulkIncomplete
    /\ now' = now + 1
    /\ fileSets' =
          [k \in 1..Len(bulkVideoFiles) |->
              FileSet(TimeString(now') \o IndexString(k - 1),
                      bulkVideoFiles[k], bulkSubtitleFiles[k])]
    /\ bulkUploadOpen' = FALSE
    /\ bulkVideoFiles' = <<>>
    /\ bulkSubtitleFiles' = <<>>
    /\ aliased' = {}
    /\ UNCHANGED <<pc, wavVars, parseVars, extractVars, uiVars, updatedFileSets,
                   fileIndex, showDownloadDialog>>

UiNext ==
    \/ HandleFileChange
    \/ AddFileSet
    \/ RemoveFileSet
    \/ SetBulkUploadOpen
    \/ HandleBulkUpload
    \/ ApplyBulkRefused
    \/ ApplyBulkUpload
    \/ SubmitIgnored
    \/ Submit
    \/ BatchParse
    \/ BatchExtract
    \/ BatchExtractThrow
    \/ BatchFinish
    \/ BatchCatch
    \/ BatchFinally

SpecUi == UiInit /\ [][UiNext]_vars

\* The two lists hold the same sets with the same files chosen.
SameSelection(a, b) ==
    /\ Len(a) = Len(b)
    /\ \A k \in 1..Len(a) :
          /\ a[k].id = b[k].id
          /\ a[k].videoFile = b[k].videoFile
          /\ a[k].subtitleFile = b[k].subtitleFile

BulkApplied ==
    /\ bulkUploadOpen /\ ~bulkUploadOpen'
    /\ bulkVideoFiles # <<>> /\ bulkVideoFiles' = <<>>

SortedByNumber(files) ==
    \A a, b \in 1..Len(files) :
        a < b => FirstNumber(files[a].name) <= FirstNumber(files[b].name)

\* C18: fileSets is never empty; the bulk selections are kept sorted; a set
\* is removed only while more than one exists; applyBulkUpload replaces
\* fileSets by a non-empty list that pairs the k-th sorted video with the
\* k-th sorted subtitle, and leaves fileSets alone when it refuses an
\* incomplete selection.
C18_NeverEmpty ==
    /\ [](/\ Len(fileSets) >= 1
          /\ SortedByNumber(bulkVideoFiles)
          /\ SortedByNumber(bulkSubtitleFiles))
    /\ [][/\ (/\ Len(fileSets') < Len(fileSets)
              /\ ~BulkApplied
              /\ ~(pc = "iterate" /\ pc' = "finally")) => Len(fileSets) > 1
          /\ BulkApplied =>
                /\ ~BulkIncomplete
                /\ Len(fileSets') = Len(bulkVideoFiles)
                /\ \A k \in 1..Len(fileSets') :
                      /\ fileSets'[k].videoFile = bulkVideoFiles[k]
                      /\ fileSets'[k].subtitleFile = bulkSubtitleFiles[k]
          /\ (toast' = "incomplete" /\ toast # "incomplete") =>
                (BulkIncomplete /\ fileSets' = fileSets)]_vars

====
